---- MODULE Spec2Model ----
(***************************************************************************)
(* Ebb-Flood irrigation controller                                         *)
(* (mycodo/functions/custom_functions/ebb_flood_irrigation.py).            *)
(*                                                                         *)
(* The controller object is the record `self`; the collaborators it calls  *)
(* (actuator host, measurement store, controller registry) are the record  *)
(* `host`.  Every call the controller makes to a collaborator during one   *)
(* handler is appended to `out` together with the value the collaborator   *)
(* returned, so `out` is the call trace of the handler run by the step     *)
(* that led to the state (empty when that step ran no handler).  What      *)
(* the measurement store and the actuator host return is chosen afresh for *)
(* every handler invocation.  The clock `now` is an integer number of      *)
(* seconds; one handler invocation reads one clock value.                  *)
(***************************************************************************)
EXTENDS Integers, Sequences, FiniteSets, TLC

VARIABLES
    cfg,            \* custom options, fixed for a run
    self,           \* mutable attributes of CustomModule
    host,           \* actuator commands, activation flag, measurement store
    out,            \* collaborator calls made by the most recent handler
    raised,         \* the most recent handler ended by raising to the host
    last,           \* which operation ran most recently
    env,            \* what the collaborators returned, or would have, in that handler
    hist,           \* history of the current cycle's sensor readings
    now,            \* time.time()
    calls           \* loop() calls made at the current clock value

vars == <<cfg, self, host, out, raised, last, env, hist, now, calls>>

----------------------------------------------------------------------------
(* Bounds of the model *)

MaxTime == 6         \* the clock stops advancing here
MaxStep == 2         \* largest clock advance between two host calls
MaxCalls == 2        \* loop() calls the host makes at one clock value
T0 == 1              \* clock value at construction

(* Python None for numeric attributes *)
None == -1

(* Raw values a measurement can carry, and pump read-backs *)
OffRaw == {"0", "0.0", "False", "off"}
OnRaw == {"1", "1.0", "True", "on"}
SampleValues == {"None", "0", "on", "2"}
PumpOnValues == {"1", "1.0", "True", "on"}
PumpValues == {"on", "off", "None"}

Devices == {"flood_dev", "min_dev"}
Actuators == {"pump", "valve1", "valve2"}

(* Option sets explored: no valve and no min-level input, both valves and a
   min-level input, one valve only *)
Option(b, v1, v2) ==
    [ period |-> 1,
      measurement_flood_waterlevel_measurement_id |-> 1,
      measurement_min_waterlevel_measurement_id |-> b,
      output_waterpump_channel |-> 0,
      output_valve1_channel |-> v1,
      output_valve2_channel |-> v2,
      output_max_time |-> 7,
      max_flooding_time |-> 3,
      flooding_overshoot |-> 2,
      max_draining_time |-> 1,
      valve_cleaning_time |-> 2,
      flood_device_found |-> TRUE,
      min_device_found |-> TRUE ]

Configs == { Option(None, None, None), Option(1, 0, 0), Option(None, None, 0) }

----------------------------------------------------------------------------
(* Collaborator calls *)

Ev(op, dev, amount) == [op |-> op, dev |-> dev, amount |-> amount, ret |-> "-"]

\* a call with the value it returned
EvRet(op, dev, ret) == [op |-> op, dev |-> dev, amount |-> 0, ret |-> ret]

Emit(c, e) == [c EXCEPT !.out = Append(@, e)]

\* control.output_on(device, output_channel=..., amount=...)
output_on(c, act, amount) ==
    [Emit(c, Ev("output_on", act, amount)) EXCEPT !.host.cmd[act] = "on"]

\* control.output_off(device, output_channel=...)
output_off(c, act) ==
    [Emit(c, Ev("output_off", act, 0)) EXCEPT !.host.cmd[act] = "off"]

----------------------------------------------------------------------------
(* Methods of CustomModule *)

\* all_outputs_off that forgets valve 2
all_outputs_off_skip_valve2(c) ==
    LET c1 == output_off(c, "pump")
        c2 == IF cfg.output_valve1_channel # None THEN output_off(c1, "valve1") ELSE c1
    IN c2

\* all_outputs_off that closes the valves before it stops the pump
all_outputs_off_valves_first(c) ==
    LET c1 == IF cfg.output_valve1_channel # None THEN output_off(c, "valve1") ELSE c
        c2 == IF cfg.output_valve2_channel # None THEN output_off(c1, "valve2") ELSE c1
        c3 == output_off(c2, "pump")
    IN c3

all_outputs_off(c) ==
    LET c1 == output_off(c, "pump")
        c2 == IF cfg.output_valve1_channel # None THEN output_off(c1, "valve1") ELSE c1
        c3 == IF cfg.output_valve2_channel # None THEN output_off(c2, "valve2") ELSE c2
    IN c3

write_statistics(c) ==
    LET measure_dict == [flooding_count |-> c.self.flooding_count,
                         error_count |-> c.self.error_count,
                         flooding_time |-> c.self.flooding_time,
                         flooding_volume |-> c.self.flooding_volume,
                         draining_time |-> c.self.draining_time,
                         low_water_time |-> c.self.low_water_time]
    IN [Emit(c, Ev("add_measurements", "store", 0)) EXCEPT !.host.store = measure_dict]

\* set_controller_off that does not look at is_activated
set_controller_off_no_flag_check(c) ==
    IF ~c.host.controller_entry THEN c
    ELSE [Emit(c, Ev("controller_deactivate", "registry", 0))
            EXCEPT !.host.is_activated = FALSE,
                   !.host.deactivate_threads = @ + 1]

set_controller_off(c) ==
    IF ~c.host.controller_entry THEN c
    ELSE IF ~c.host.is_activated THEN c
    ELSE [Emit(c, Ev("controller_deactivate", "registry", 0))
            EXCEPT !.host.is_activated = FALSE,
                   !.host.deactivate_threads = @ + 1]

\* writes a batch holding channels 0 (flooding count) and 1 (error count),
\* both with value 0; the other channels keep their last values
button_reset_errors(c) ==
    [Emit(c, Ev("add_measurements", "store", 0))
        EXCEPT !.host.store.flooding_count = 0,
               !.host.store.error_count = 0]

on_error(c) ==
    set_controller_off(write_statistics(
        [c EXCEPT !.self.error_count = @ + 1]))

\* machine.add_transition('error', '*', dest='error', after='on_error')
error(c) == on_error([c EXCEPT !.self.state = "error"])

on_shutdown(c) == all_outputs_off(c)

\* machine.add_transition('shutdown', '*', dest='shutdown', after='on_shutdown')
shutdown(c) == on_shutdown([c EXCEPT !.self.state = "shutdown"])

stop_function(c) == shutdown(all_outputs_off(c))

check_force_measurement(c, t, device_id) ==
    IF /\ c.self.last_force_measurement_time[device_id] # None
       /\ t - c.self.last_force_measurement_time[device_id] < 1
    THEN c
    ELSE [Emit(c, Ev("input_force_measurements", device_id, 0))
            EXCEPT !.self.last_force_measurement_time[device_id] = t]

\* check_force_measurement that restarts the 1-second window at a request it
\* suppresses; the clock t counts units of 1/second seconds
check_force_measurement_extends(c, t, device_id, second) ==
    IF /\ c.self.last_force_measurement_time[device_id] # None
       /\ t - c.self.last_force_measurement_time[device_id] < second
    THEN [c EXCEPT !.self.last_force_measurement_time[device_id] = t]
    ELSE [Emit(c, Ev("input_force_measurements", device_id, 0))
            EXCEPT !.self.last_force_measurement_time[device_id] = t]

\* check_force_measurement on a clock t that counts units of 1/second
\* seconds, so that two requests can be less than a second apart at
\* different clock values
check_force_measurement_at(c, t, device_id, second) ==
    IF /\ c.self.last_force_measurement_time[device_id] # None
       /\ t - c.self.last_force_measurement_time[device_id] < second
    THEN c
    ELSE [Emit(c, Ev("input_force_measurements", device_id, 0))
            EXCEPT !.self.last_force_measurement_time[device_id] = t]

\* the value mapping that knows the integers, booleans and strings but not
\* the floats 0.0 and 1.0
read_level_no_floats(c, measurement) ==
    IF measurement = "None" THEN [c |-> c, v |-> None]
    ELSE IF measurement \in {"0", "False", "off"} THEN [c |-> c, v |-> 0]
    ELSE IF measurement \in {"1", "True", "on"} THEN [c |-> c, v |-> 1]
    ELSE [c |-> error(c), v |-> None]

\* the value mapping shared by read_flood_waterlevel and read_basin_waterlevel;
\* the result is [c |-> controller afterwards, v |-> 0, 1 or None]
read_level(c, measurement) ==
    IF measurement = "None" THEN [c |-> c, v |-> None]
    ELSE IF measurement \in OffRaw THEN [c |-> c, v |-> 0]
    ELSE IF measurement \in OnRaw THEN [c |-> c, v |-> 1]
    ELSE [c |-> error(c), v |-> None]

read_flood_waterlevel(c, t) ==
    LET c1 == check_force_measurement(c, t, "flood_dev")
        c2 == Emit(c1, EvRet("get_last_measurement", "flood_dev", c.env.flood_sample))
    IN read_level(c2, c.env.flood_sample)

read_basin_waterlevel(c, t) ==
    LET c1 == check_force_measurement(c, t, "flood_dev")
        c2 == Emit(c1, EvRet("get_last_measurement", "min_dev", c.env.basin_sample))
    IN read_level(c2, c.env.basin_sample)


\* lines 495-504: pump and configured valves on, each with the ceiling
turn_on_outputs(c) ==
    LET c1 == output_on(c, "pump", cfg.output_max_time)
        c2 == IF cfg.output_valve1_channel # None
              THEN output_on(c1, "valve1", cfg.output_max_time) ELSE c1
        c3 == IF cfg.output_valve2_channel # None
              THEN output_on(c2, "valve2", cfg.output_max_time) ELSE c2
    IN c3

\* machine.add_transition('drain', 'full', dest='draining')
drain(c) ==
    IF c.self.state = "full" THEN [c EXCEPT !.self.state = "draining"]
    ELSE [c EXCEPT !.raised = TRUE]

\* on_full that does not fire the drain trigger
on_full_no_drain(c, t) ==
    LET c1 == IF c.self.low_water_time = 0
              THEN [c EXCEPT !.self.low_water_time = t - c.self.fill_start_timestamp]
              ELSE c
        c2 == [c1 EXCEPT !.self.flooding_count = @ + 1]
        c3 == all_outputs_off(c2)
        c4 == [c3 EXCEPT !.self.draining_start_timestamp = t]
    IN c4

\* on_full that leaves the outputs as they are
on_full_leaves_outputs(c, t) ==
    LET c1 == IF c.self.low_water_time = 0
              THEN [c EXCEPT !.self.low_water_time = t - c.self.fill_start_timestamp]
              ELSE c
        c2 == [c1 EXCEPT !.self.flooding_count = @ + 1]
        c4 == [c2 EXCEPT !.self.draining_start_timestamp = t]
    IN drain(c4)

on_full(c, t) ==
    LET c1 == IF c.self.low_water_time = 0
              THEN [c EXCEPT !.self.low_water_time = t - c.self.fill_start_timestamp]
              ELSE c
        c2 == [c1 EXCEPT !.self.flooding_count = @ + 1]
        c3 == all_outputs_off(c2)
        c4 == [c3 EXCEPT !.self.draining_start_timestamp = t]
    IN drain(c4)

\* machine.add_transition('full', 'filling', dest='full', after='on_full');
\* the trigger is not valid from any other state and then raises MachineError
full(c, t) ==
    IF c.self.state = "filling" THEN on_full([c EXCEPT !.self.state = "full"], t)
    ELSE [c EXCEPT !.raised = TRUE]

\* the valve-cleaning sub-sequence re-opening valve 2 at the end of the
\* window without the amount argument
clean_valves_no_ceiling(c) ==
    IF c.self.cleaning_valves >= 1
    THEN IF c.self.flooding_time < cfg.valve_cleaning_time
         THEN LET c1 == [c EXCEPT !.self.cleaning_valves = @ + 1]
                  k == c1.self.cleaning_valves % 4
              IN CASE k = 0 -> IF cfg.output_valve1_channel # None
                               THEN output_on(c1, "valve1", cfg.output_max_time) ELSE c1
                   [] k = 1 -> IF cfg.output_valve1_channel # None
                               THEN output_off(c1, "valve1") ELSE c1
                   [] k = 2 -> IF cfg.output_valve2_channel # None
                               THEN output_on(c1, "valve2", cfg.output_max_time) ELSE c1
                   [] k = 3 -> IF cfg.output_valve2_channel # None
                               THEN output_off(c1, "valve2") ELSE c1
         ELSE LET c1 == [c EXCEPT !.self.cleaning_valves = 0]
                  c2 == IF cfg.output_valve1_channel # None
                        THEN output_on(c1, "valve1", cfg.output_max_time) ELSE c1
                  c3 == IF cfg.output_valve2_channel # None
                        THEN output_on(c2, "valve2", None) ELSE c2
              IN c3
    ELSE c

\* the valve-cleaning sub-sequence re-opening only valve 1 at the end of the
\* window
clean_valves_reopens_valve1_only(c) ==
    IF c.self.cleaning_valves >= 1
    THEN IF c.self.flooding_time < cfg.valve_cleaning_time
         THEN LET c1 == [c EXCEPT !.self.cleaning_valves = @ + 1]
                  k == c1.self.cleaning_valves % 4
              IN CASE k = 0 -> IF cfg.output_valve1_channel # None
                               THEN output_on(c1, "valve1", cfg.output_max_time) ELSE c1
                   [] k = 1 -> IF cfg.output_valve1_channel # None
                               THEN output_off(c1, "valve1") ELSE c1
                   [] k = 2 -> IF cfg.output_valve2_channel # None
                               THEN output_on(c1, "valve2", cfg.output_max_time) ELSE c1
                   [] k = 3 -> IF cfg.output_valve2_channel # None
                               THEN output_off(c1, "valve2") ELSE c1
         ELSE LET c1 == [c EXCEPT !.self.cleaning_valves = 0]
                  c2 == IF cfg.output_valve1_channel # None
                        THEN output_on(c1, "valve1", cfg.output_max_time) ELSE c1
              IN c2
    ELSE c

\* lines 534-566: the valve-cleaning sub-sequence
clean_valves(c) ==
    IF c.self.cleaning_valves >= 1
    THEN IF c.self.flooding_time < cfg.valve_cleaning_time
         THEN LET c1 == [c EXCEPT !.self.cleaning_valves = @ + 1]
                  k == c1.self.cleaning_valves % 4
              IN CASE k = 0 -> IF cfg.output_valve1_channel # None
                               THEN output_on(c1, "valve1", cfg.output_max_time) ELSE c1
                   [] k = 1 -> IF cfg.output_valve1_channel # None
                               THEN output_off(c1, "valve1") ELSE c1
                   [] k = 2 -> IF cfg.output_valve2_channel # None
                               THEN output_on(c1, "valve2", cfg.output_max_time) ELSE c1
                   [] k = 3 -> IF cfg.output_valve2_channel # None
                               THEN output_off(c1, "valve2") ELSE c1
         ELSE LET c1 == [c EXCEPT !.self.cleaning_valves = 0]
                  c2 == IF cfg.output_valve1_channel # None
                        THEN output_on(c1, "valve1", cfg.output_max_time) ELSE c1
                  c3 == IF cfg.output_valve2_channel # None
                        THEN output_on(c2, "valve2", cfg.output_max_time) ELSE c2
              IN c3
    ELSE c

\* the low-water time taken anew on every tick that reads the min-level
\* input as Off
check_low_water_relatches(c, t) ==
    IF cfg.measurement_min_waterlevel_measurement_id # None
    THEN LET rb == read_basin_waterlevel(c, t)
         IN IF rb.v = 0
            THEN [rb.c EXCEPT !.self.low_water_time = t - c.self.fill_start_timestamp]
            ELSE rb.c
    ELSE c

\* lines 568-573: latch the low-water time once
check_low_water(c, t) ==
    IF cfg.measurement_min_waterlevel_measurement_id # None /\ c.self.low_water_time = 0
    THEN LET rb == read_basin_waterlevel(c, t)
         IN IF rb.v = 0
            THEN [rb.c EXCEPT !.self.low_water_time = t - c.self.fill_start_timestamp]
            ELSE rb.c
    ELSE c

\* the overshoot dwell measured from the start of filling instead of from
\* the first On reading
check_flood_level_from_fill_start(c, t) ==
    LET r == read_flood_waterlevel(c, t)
        c1 == IF r.v = None THEN error(r.c) ELSE r.c
    IN
    IF r.v \in {None, 0} THEN c1
    ELSE
      LET c2 == IF c1.self.flooded_high_time = None \/ c1.self.flooded_high_time = 0
                THEN [c1 EXCEPT !.self.flooded_high_time = t] ELSE c1
          c3 == [c2 EXCEPT !.self.overshoot_time = t - c2.self.fill_start_timestamp]
      IN IF c3.self.overshoot_time < cfg.flooding_overshoot THEN c3
         ELSE full(c3, t)

\* an unavailable flood level treated as in starting: return and retry
check_flood_level_none_returns(c, t) ==
    LET r == read_flood_waterlevel(c, t)
        c1 == r.c
    IN
    IF r.v \in {None, 0} THEN c1
    ELSE
      LET c2 == IF c1.self.flooded_high_time = None \/ c1.self.flooded_high_time = 0
                THEN [c1 EXCEPT !.self.flooded_high_time = t] ELSE c1
          c3 == [c2 EXCEPT !.self.overshoot_time = t - c2.self.flooded_high_time]
      IN IF c3.self.overshoot_time < cfg.flooding_overshoot THEN c3
         ELSE full(c3, t)

\* the overshoot dwell ending only when overshoot_time exceeds
\* flooding_overshoot
check_flood_level_dwell_longer(c, t) ==
    LET r == read_flood_waterlevel(c, t)
        c1 == IF r.v = None THEN error(r.c) ELSE r.c
    IN
    IF r.v \in {None, 0} THEN c1
    ELSE
      LET c2 == IF c1.self.flooded_high_time = None \/ c1.self.flooded_high_time = 0
                THEN [c1 EXCEPT !.self.flooded_high_time = t] ELSE c1
          c3 == [c2 EXCEPT !.self.overshoot_time = t - c2.self.flooded_high_time]
      IN IF c3.self.overshoot_time <= cfg.flooding_overshoot THEN c3
         ELSE full(c3, t)

\* lines 575-595: flood-level read and overshoot dwell
check_flood_level(c, t) ==
    LET r == read_flood_waterlevel(c, t)
        c1 == IF r.v = None THEN error(r.c) ELSE r.c
    IN
    IF r.v \in {None, 0} THEN c1
    ELSE
      LET c2 == IF c1.self.flooded_high_time = None \/ c1.self.flooded_high_time = 0
                THEN [c1 EXCEPT !.self.flooded_high_time = t] ELSE c1
          c3 == [c2 EXCEPT !.self.overshoot_time = t - c2.self.flooded_high_time]
      IN IF c3.self.overshoot_time < cfg.flooding_overshoot THEN c3
         ELSE full(c3, t)

\* the pump read-back without the comparison against the On values
check_pump_any_value(c) ==
    LET c1 == Emit(c, EvRet("output_state", "pump", c.env.pump_state)) IN
    IF c.env.pump_state = "None" THEN [c |-> error(c1), ok |-> FALSE]
    ELSE [c |-> c1, ok |-> TRUE]

\* lines 522-532: the pump read-back; ok is FALSE when the handler returned
check_pump(c) ==
    LET c1 == Emit(c, EvRet("output_state", "pump", c.env.pump_state)) IN
    IF c.env.pump_state = "None" THEN [c |-> error(c1), ok |-> FALSE]
    ELSE IF c.env.pump_state \notin PumpOnValues THEN [c |-> error(c1), ok |-> FALSE]
    ELSE [c |-> c1, ok |-> TRUE]

\* on_filling with the fill timeout compared by >= instead of >
on_filling_timeout_ge(c, t) ==
    LET c1 == [c EXCEPT !.self.flooding_time = t - c.self.fill_start_timestamp] IN
    IF c1.self.flooding_time >= cfg.max_flooding_time THEN error(c1)
    ELSE
      LET p == check_pump(c1) IN
      IF ~p.ok THEN p.c
      ELSE check_flood_level(check_low_water(clean_valves(p.c), t), t)

\* on_filling with the fill timeout checked after the read-back, the valve
\* steps and the sensor reads
on_filling_timeout_last(c, t) ==
    LET c1 == [c EXCEPT !.self.flooding_time = t - c.self.fill_start_timestamp]
        p == check_pump(c1)
    IN
    IF ~p.ok THEN p.c
    ELSE
      LET r == check_flood_level(check_low_water(clean_valves(p.c), t), t) IN
      IF r.self.state = "filling" /\ c1.self.flooding_time > cfg.max_flooding_time
      THEN error(r)
      ELSE r

on_filling(c, t) ==
    LET c1 == [c EXCEPT !.self.flooding_time = t - c.self.fill_start_timestamp] IN
    IF c1.self.flooding_time > cfg.max_flooding_time THEN error(c1)
    ELSE
      LET p == check_pump(c1) IN
      IF ~p.ok THEN p.c
      ELSE check_flood_level(check_low_water(clean_valves(p.c), t), t)

\* machine.add_transition('filling', 'starting', dest='filling')
\* machine.add_transition('filling', 'filling', dest='filling', after='on_filling');
\* the trigger is not valid from any other state and then raises MachineError
filling(c, t) ==
    IF c.self.state = "starting" THEN [c EXCEPT !.self.state = "filling"]
    ELSE IF c.self.state = "filling" THEN on_filling(c, t)
    ELSE [c EXCEPT !.raised = TRUE]

\* on_starting without the check of output_waterpump_channel
on_starting_no_pump_check(c, t) ==
    LET c0 == [c EXCEPT !.self.flooding_time = 0, !.self.low_water_time = 0]
        c1 == [c0 EXCEPT !.self.starting_tries = IF @ = None THEN 0 ELSE @ + 1]
    IN
    IF c1.self.starting_tries > 3 THEN error(c1)
    ELSE IF None \in {cfg.max_flooding_time, cfg.flooding_overshoot} THEN error(c1)
    ELSE IF cfg.measurement_flood_waterlevel_measurement_id = None THEN error(c1)
    ELSE IF ~cfg.flood_device_found THEN error(c1)
    ELSE
      LET r == read_flood_waterlevel(c1, t) IN
      IF r.v \in {None, 1} THEN r.c
      ELSE
        LET b == IF cfg.measurement_min_waterlevel_measurement_id # None
                 THEN IF ~cfg.min_device_found
                      THEN [c |-> error(r.c), v |-> None, stop |-> TRUE]
                      ELSE LET rb == read_basin_waterlevel(r.c, t)
                           IN [c |-> rb.c, v |-> rb.v, stop |-> rb.v \in {None, 0}]
                 ELSE [c |-> r.c, v |-> 1, stop |-> FALSE]
        IN
        IF b.stop THEN b.c
        ELSE filling([turn_on_outputs(b.c) EXCEPT
                        !.self.fill_start_timestamp = t,
                        !.self.flooding_time = 0,
                        !.self.overshoot_time = 0,
                        !.self.flooded_high_time = 0,
                        !.self.cleaning_valves = 1], t)

\* on_starting giving up only when starting_tries exceeds 4
on_starting_gives_up_later(c, t) ==
    LET c0 == [c EXCEPT !.self.flooding_time = 0, !.self.low_water_time = 0]
        c1 == [c0 EXCEPT !.self.starting_tries = IF @ = None THEN 0 ELSE @ + 1]
    IN
    IF c1.self.starting_tries > 4 THEN error(c1)
    ELSE IF None \in {cfg.max_flooding_time, cfg.flooding_overshoot} THEN error(c1)
    ELSE IF cfg.measurement_flood_waterlevel_measurement_id = None THEN error(c1)
    ELSE IF cfg.output_waterpump_channel = None THEN error(c1)
    ELSE IF ~cfg.flood_device_found THEN error(c1)
    ELSE
      LET r == read_flood_waterlevel(c1, t) IN
      IF r.v \in {None, 1} THEN r.c
      ELSE
        LET b == IF cfg.measurement_min_waterlevel_measurement_id # None
                 THEN IF ~cfg.min_device_found
                      THEN [c |-> error(r.c), v |-> None, stop |-> TRUE]
                      ELSE LET rb == read_basin_waterlevel(r.c, t)
                           IN [c |-> rb.c, v |-> rb.v, stop |-> rb.v \in {None, 0}]
                 ELSE [c |-> r.c, v |-> 1, stop |-> FALSE]
        IN
        IF b.stop THEN b.c
        ELSE filling([turn_on_outputs(b.c) EXCEPT
                        !.self.fill_start_timestamp = t,
                        !.self.flooding_time = 0,
                        !.self.overshoot_time = 0,
                        !.self.flooded_high_time = 0,
                        !.self.cleaning_valves = 1], t)

\* on_starting giving up as soon as starting_tries reaches 3
on_starting_gives_up_sooner(c, t) ==
    LET c0 == [c EXCEPT !.self.flooding_time = 0, !.self.low_water_time = 0]
        c1 == [c0 EXCEPT !.self.starting_tries = IF @ = None THEN 0 ELSE @ + 1]
    IN
    IF c1.self.starting_tries >= 3 THEN error(c1)
    ELSE IF None \in {cfg.max_flooding_time, cfg.flooding_overshoot} THEN error(c1)
    ELSE IF cfg.measurement_flood_waterlevel_measurement_id = None THEN error(c1)
    ELSE IF cfg.output_waterpump_channel = None THEN error(c1)
    ELSE IF ~cfg.flood_device_found THEN error(c1)
    ELSE
      LET r == read_flood_waterlevel(c1, t) IN
      IF r.v \in {None, 1} THEN r.c
      ELSE
        LET b == IF cfg.measurement_min_waterlevel_measurement_id # None
                 THEN IF ~cfg.min_device_found
                      THEN [c |-> error(r.c), v |-> None, stop |-> TRUE]
                      ELSE LET rb == read_basin_waterlevel(r.c, t)
                           IN [c |-> rb.c, v |-> rb.v, stop |-> rb.v \in {None, 0}]
                 ELSE [c |-> r.c, v |-> 1, stop |-> FALSE]
        IN
        IF b.stop THEN b.c
        ELSE filling([turn_on_outputs(b.c) EXCEPT
                        !.self.fill_start_timestamp = t,
                        !.self.flooding_time = 0,
                        !.self.overshoot_time = 0,
                        !.self.flooded_high_time = 0,
                        !.self.cleaning_valves = 1], t)

\* on_starting going ahead on a min-level reading of 0 and retrying on 1
on_starting_basin_off(c, t) ==
    LET c0 == [c EXCEPT !.self.flooding_time = 0, !.self.low_water_time = 0]
        c1 == [c0 EXCEPT !.self.starting_tries = IF @ = None THEN 0 ELSE @ + 1]
    IN
    IF c1.self.starting_tries > 3 THEN error(c1)
    ELSE IF None \in {cfg.max_flooding_time, cfg.flooding_overshoot} THEN error(c1)
    ELSE IF cfg.measurement_flood_waterlevel_measurement_id = None THEN error(c1)
    ELSE IF cfg.output_waterpump_channel = None THEN error(c1)
    ELSE IF ~cfg.flood_device_found THEN error(c1)
    ELSE
      LET r == read_flood_waterlevel(c1, t) IN
      IF r.v \in {None, 1} THEN r.c
      ELSE
        LET b == IF cfg.measurement_min_waterlevel_measurement_id # None
                 THEN IF ~cfg.min_device_found
                      THEN [c |-> error(r.c), v |-> None, stop |-> TRUE]
                      ELSE LET rb == read_basin_waterlevel(r.c, t)
                           IN [c |-> rb.c, v |-> rb.v, stop |-> rb.v \in {None, 1}]
                 ELSE [c |-> r.c, v |-> 1, stop |-> FALSE]
        IN
        IF b.stop THEN b.c
        ELSE filling([turn_on_outputs(b.c) EXCEPT
                        !.self.fill_start_timestamp = t,
                        !.self.flooding_time = 0,
                        !.self.overshoot_time = 0,
                        !.self.flooded_high_time = 0,
                        !.self.cleaning_valves = 1], t)

on_starting(c, t) ==
    LET c0 == [c EXCEPT !.self.flooding_time = 0, !.self.low_water_time = 0]
        c1 == [c0 EXCEPT !.self.starting_tries = IF @ = None THEN 0 ELSE @ + 1]
    IN
    IF c1.self.starting_tries > 3 THEN error(c1)
    ELSE IF None \in {cfg.max_flooding_time, cfg.flooding_overshoot} THEN error(c1)
    ELSE IF cfg.measurement_flood_waterlevel_measurement_id = None THEN error(c1)
    ELSE IF cfg.output_waterpump_channel = None THEN error(c1)
    ELSE IF ~cfg.flood_device_found THEN error(c1)
    ELSE
      LET r == read_flood_waterlevel(c1, t) IN
      IF r.v \in {None, 1} THEN r.c
      ELSE
        LET b == IF cfg.measurement_min_waterlevel_measurement_id # None
                 THEN IF ~cfg.min_device_found
                      THEN [c |-> error(r.c), v |-> None, stop |-> TRUE]
                      ELSE LET rb == read_basin_waterlevel(r.c, t)
                           IN [c |-> rb.c, v |-> rb.v, stop |-> rb.v \in {None, 0}]
                 ELSE [c |-> r.c, v |-> 1, stop |-> FALSE]
        IN
        IF b.stop THEN b.c
        ELSE filling([turn_on_outputs(b.c) EXCEPT
                        !.self.fill_start_timestamp = t,
                        !.self.flooding_time = 0,
                        !.self.overshoot_time = 0,
                        !.self.flooded_high_time = 0,
                        !.self.cleaning_valves = 1], t)

\* on_drained requesting deactivation before it writes the statistics
on_drained_deactivate_first(c) == write_statistics(set_controller_off(c))

on_drained(c) == set_controller_off(write_statistics(c))

\* machine.add_transition('drained', 'draining', dest='drained', after='on_drained')
drained(c) ==
    IF c.self.state = "draining" THEN on_drained([c EXCEPT !.self.state = "drained"])
    ELSE [c EXCEPT !.raised = TRUE]

\* on_draining without the check of max_draining_time
on_draining_no_timeout(c, t) ==
    LET c1 == [c EXCEPT !.self.draining_time = t - c.self.draining_start_timestamp] IN
      LET r == read_flood_waterlevel(c1, t) IN
      IF r.v = None THEN error(r.c)
      ELSE IF r.v = 0 THEN drained(r.c)
      ELSE r.c

\* on_draining that keeps waiting on an unavailable flood level
on_draining_none_waits(c, t) ==
    LET c1 == [c EXCEPT !.self.draining_time = t - c.self.draining_start_timestamp] IN
    IF c1.self.draining_time > cfg.max_draining_time THEN error(c1)
    ELSE
      LET r == read_flood_waterlevel(c1, t) IN
      IF r.v = 0 THEN drained(r.c)
      ELSE r.c

\* on_draining with the drain timeout compared by >= instead of >
on_draining_timeout_ge(c, t) ==
    LET c1 == [c EXCEPT !.self.draining_time = t - c.self.draining_start_timestamp] IN
    IF c1.self.draining_time >= cfg.max_draining_time THEN error(c1)
    ELSE
      LET r == read_flood_waterlevel(c1, t) IN
      IF r.v = None THEN error(r.c)
      ELSE IF r.v = 0 THEN drained(r.c)
      ELSE r.c

on_draining(c, t) ==
    LET c1 == [c EXCEPT !.self.draining_time = t - c.self.draining_start_timestamp] IN
    IF c1.self.draining_time > cfg.max_draining_time THEN error(c1)
    ELSE
      LET r == read_flood_waterlevel(c1, t) IN
      IF r.v = None THEN error(r.c)
      ELSE IF r.v = 0 THEN drained(r.c)
      ELSE r.c

\* machine.add_transition('start', 'idle', dest='starting')
\* the trigger is not valid from any other state and then raises MachineError
start(c) ==
    IF c.self.state = "idle" THEN [c EXCEPT !.self.state = "starting"]
    ELSE [c EXCEPT !.raised = TRUE]

\* while self.timer_loop < time.time(): self.timer_loop += self.period
RECURSIVE advance_timer(_, _)
advance_timer(timer_loop, t) ==
    IF timer_loop < t THEN advance_timer(timer_loop + cfg.period, t) ELSE timer_loop

\* loop() with a case for drained that starts the next cycle
loop_rearms_after_drained(c, t) ==
    IF c.self.timer_loop > t THEN c
    ELSE
      LET c1 == [c EXCEPT !.self.timer_loop = advance_timer(@, t)] IN
      CASE c1.self.state = "idle" -> start(c1)
        [] c1.self.state = "starting" -> on_starting(c1, t)
        [] c1.self.state = "filling" -> on_filling(c1, t)
        [] c1.self.state = "draining" -> on_draining(c1, t)
        [] c1.self.state = "drained" -> [c1 EXCEPT !.self.state = "starting"]
        [] c1.self.state = "error" -> [set_controller_off(c1) EXCEPT !.raised = TRUE]
        [] OTHER -> c1

\* loop() without the check of the timer at its head
loop_no_timer_check(c, t) ==
      LET c1 == [c EXCEPT !.self.timer_loop = advance_timer(@, t)] IN
      CASE c1.self.state = "idle" -> start(c1)
        [] c1.self.state = "starting" -> on_starting(c1, t)
        [] c1.self.state = "filling" -> on_filling(c1, t)
        [] c1.self.state = "draining" -> on_draining(c1, t)
        [] c1.self.state = "error" -> [set_controller_off(c1) EXCEPT !.raised = TRUE]
        [] OTHER -> c1

loop(c, t) ==
    IF c.self.timer_loop > t THEN c
    ELSE
      LET c1 == [c EXCEPT !.self.timer_loop = advance_timer(@, t)] IN
      CASE c1.self.state = "idle" -> start(c1)
        [] c1.self.state = "starting" -> on_starting(c1, t)
        [] c1.self.state = "filling" -> on_filling(c1, t)
        [] c1.self.state = "draining" -> on_draining(c1, t)
        [] c1.self.state = "error" -> [set_controller_off(c1) EXCEPT !.raised = TRUE]
        [] OTHER -> c1

----------------------------------------------------------------------------
(* State machine *)

States == {"idle", "starting", "filling", "full", "draining", "drained", "error", "shutdown"}

\* what the collaborators return during one handler invocation:
\* flood_sample / basin_sample: the last measurement within max_age ("None" if
\* there is none); pump_state: the result of control.output_state()
Envs == [flood_sample : SampleValues, basin_sample : SampleValues, pump_state : PumpValues]

\* the returns a handler entered in state st can read: the pump is read back
\* only in filling, the min-level input only when configured and only in
\* starting and filling, the flood-level input in starting, filling and draining
EnvsRead(st) ==
    { e \in Envs :
        /\ st # "filling" => e.pump_state = "None"
        /\ (st \notin {"starting", "filling"}
              \/ cfg.measurement_min_waterlevel_measurement_id = None)
             => e.basin_sample = "None"
        /\ st \notin {"starting", "filling", "draining"} => e.flood_sample = "None" }

\* the value of env in a state reached by a step that ran no handler
NoEnv == [flood_sample |-> "None", basin_sample |-> "None", pump_state |-> "None"]

\* the controller as a handler sees it on entry: empty call trace, nothing raised
Ctx(e) == [self |-> self, host |-> host, out |-> <<>>, raised |-> FALSE, env |-> e]

Commit(c, op) ==
    /\ self' = c.self
    /\ host' = c.host
    /\ out' = c.out
    /\ raised' = c.raised
    /\ env' = c.env
    /\ last' = op

\* the handler whose call trace is o read the flood-level input
FloodRead(o) ==
    \E i \in 1..Len(o) : o[i].op = "get_last_measurement" /\ o[i].dev = "flood_dev"

\* History of the readings of one cycle, kept beside the controller:
\*   first_on      clock value of the first On reading of the flood-level input
\*                 on a filling tick of this cycle (None before it)
\*   off_after_on  a later filling tick of this cycle read something other than On
\*   only_on       every filling tick of this cycle so far read On
\*   drain_ticks   number of draining ticks of this cycle that have run
\*   start_ticks   number of ticks since activation that found the controller
\*                 in idle or starting
NoHist == [first_on |-> None, off_after_on |-> FALSE, only_on |-> TRUE, drain_ticks |-> 0,
           start_ticks |-> 0]

HistAfter(h, c, t) ==
    IF self.state = "starting" /\ c.self.state = "filling"
    THEN [NoHist EXCEPT !.start_ticks = h.start_ticks + 1]
    ELSE IF self.state \in {"idle", "starting"} /\ self.timer_loop <= t
    THEN [h EXCEPT !.start_ticks = @ + 1]
    ELSE IF self.state = "filling" /\ self.timer_loop <= t
    THEN IF FloodRead(c.out) /\ c.env.flood_sample \in OnRaw
         THEN [h EXCEPT !.first_on = IF @ = None THEN t ELSE @]
         ELSE [h EXCEPT !.off_after_on = (h.first_on # None) \/ @, !.only_on = FALSE]
    ELSE IF self.state = "draining" /\ self.timer_loop <= t
    THEN [h EXCEPT !.drain_ticks = @ + 1]
    ELSE h

\* CustomModule.__init__ followed by initialize(), with the measurement store
\* holding fc as the last flooding count and ec as the last error count
\* (initialize reads both back into the controller)
ConstructedFrom(C, fc, ec) ==
    /\ cfg \in C
    /\ now = T0
    /\ self = [ state |-> "idle",
                timer_loop |-> T0,
                starting_tries |-> None,
                fill_start_timestamp |-> 0,
                draining_start_timestamp |-> 0,
                flooding_count |-> fc,
                flooding_time |-> 0,
                overshoot_time |-> 0,
                flooded_high_time |-> 0,
                flooding_volume |-> 0,
                draining_time |-> 0,
                low_water_time |-> 0,
                cleaning_valves |-> 0,
                error_count |-> ec,
                last_force_measurement_time |-> [d \in Devices |-> None] ]
    /\ host = [ cmd |-> [a \in Actuators |-> "none"],
                controller_entry |-> TRUE,
                is_activated |-> TRUE,
                deactivate_threads |-> 0,
                store |-> [flooding_count |-> fc, error_count |-> ec, flooding_time |-> 0,
                           flooding_volume |-> 0, draining_time |-> 0, low_water_time |-> 0] ]
    /\ out = <<>>
    /\ raised = FALSE
    /\ last = "init"
    /\ env = NoEnv
    /\ calls = 0

\* a first activation: nothing persisted yet
Constructed(C) == ConstructedFrom(C, 0, 0)

InitWith(C) ==
    /\ Constructed(C)
    /\ hist = NoHist

Init == InitWith(Configs)

\* the host calls loop()
Tick ==
    /\ calls < MaxCalls
    /\ \E e \in EnvsRead(self.state) :
          LET c == loop(Ctx(e), now)
          IN Commit(c, "loop") /\ hist' = HistAfter(hist, c, now)
    /\ calls' = calls + 1
    /\ UNCHANGED <<cfg, now>>

\* the host deactivates the controller
StopFunction ==
    /\ Commit(stop_function(Ctx(NoEnv)), "stop_function")
    /\ UNCHANGED <<cfg, hist, now, calls>>

\* the detached thread started by set_controller_off runs
DeactivateThread ==
    /\ host.deactivate_threads > 0
    /\ host' = [host EXCEPT !.deactivate_threads = @ - 1]
    /\ out' = <<>>
    /\ raised' = FALSE
    /\ last' = "thread"
    /\ env' = NoEnv
    /\ UNCHANGED <<cfg, self, hist, now, calls>>

\* time passes
Advance ==
    /\ now < MaxTime
    /\ \E d \in 1..MaxStep : now' = now + d
    /\ out' = <<>>
    /\ raised' = FALSE
    /\ last' = "advance"
    /\ calls' = 0
    /\ env' = NoEnv
    /\ UNCHANGED <<cfg, self, host, hist>>

Next ==
    \/ Tick
    \/ StopFunction
    \/ DeactivateThread
    \/ Advance

Spec == Init /\ [][Next]_vars

\* configurations in which output_waterpump_channel was never resolved
NoPumpConfigs ==
    { [o EXCEPT !.output_waterpump_channel = None] : o \in Configs }

InitNoPump == InitWith(NoPumpConfigs)

SpecNoPump == InitNoPump /\ [][Next]_vars

\* one configuration, with the detached deactivation thread scheduled fairly
\* (threading.Thread.start() hands it to the interpreter's scheduler)
InitPumpOnly == InitWith({Option(None, None, None)})

SpecDeactivate == InitPumpOnly /\ [][Next]_vars /\ WF_vars(DeactivateThread)

\* the operator presses the "Reset error counter" button
ButtonResetErrors ==
    /\ Commit(button_reset_errors(Ctx(NoEnv)), "button_reset_errors")
    /\ UNCHANGED <<cfg, hist, now, calls>>

NextWithReset ==
    \/ Next
    \/ ButtonResetErrors

\* one configuration, with the operator's button
SpecReset == InitPumpOnly /\ [][NextWithReset]_vars

\* configurations with a period of 2 seconds: the clock can then lie between
\* two scheduled ticks
Period2Configs ==
    { [o EXCEPT !.period = 2] : o \in {Option(None, None, None), Option(None, None, 0)} }

InitPeriod2 == InitWith(Period2Configs)

SpecPeriod2 == InitPeriod2 /\ [][Next]_vars

\* configurations whose flooding_overshoot is not less than max_flooding_time
BadOrderConfigs ==
    { [Option(None, None, None) EXCEPT !.flooding_overshoot = 3],
      [Option(None, None, None) EXCEPT !.flooding_overshoot = 4] }

InitBadOrder == InitWith(BadOrderConfigs)

SpecBadOrder == InitBadOrder /\ [][Next]_vars

\* every raw value of the two accepted families, no sample, and a value of
\* neither family
RawValues == OffRaw \cup OnRaw \cup {"None", "2"}

RawEnvsRead(st) ==
    { e \in [flood_sample : RawValues, basin_sample : RawValues, pump_state : PumpValues] :
        /\ st # "filling" => e.pump_state = "None"
        /\ (st \notin {"starting", "filling"}
              \/ cfg.measurement_min_waterlevel_measurement_id = None)
             => e.basin_sample = "None"
        /\ st \notin {"starting", "filling", "draining"} => e.flood_sample = "None" }

\* the host calls loop(); the measurement store may hold any raw value
TickRaw ==
    /\ calls < MaxCalls
    /\ \E e \in RawEnvsRead(self.state) :
          LET c == loop(Ctx(e), now)
          IN Commit(c, "loop") /\ hist' = HistAfter(hist, c, now)
    /\ calls' = calls + 1
    /\ UNCHANGED <<cfg, now>>

NextRaw ==
    \/ TickRaw
    \/ StopFunction
    \/ DeactivateThread
    \/ Advance

\* one configuration, with the store holding any raw value
SpecReader == InitPumpOnly /\ [][NextRaw]_vars

\* The rate limiter on its own, on a clock that counts half seconds.  Here
\* hist records, per source, the clock value of the last request that was
\* forwarded to the measurement store, and the source of the latest request.
HalfSeconds == 2

NoRequests == [forwarded_at |-> [d \in Devices |-> None], requested |-> "none"]

InitLimiter ==
    /\ Constructed({Option(None, None, None)})
    /\ hist = NoRequests

\* a reader asks for a forced refresh of the source d
RequestRefresh ==
    \E d \in Devices :
       LET c == check_force_measurement_at(Ctx(NoEnv), now, d, HalfSeconds)
       IN /\ Commit(c, "check_force_measurement")
          /\ hist' = [forwarded_at |->
                         IF c.out # <<>>
                         THEN [hist.forwarded_at EXCEPT ![d] = now]
                         ELSE hist.forwarded_at,
                      requested |-> d]
          /\ UNCHANGED <<cfg, now, calls>>

NextLimiter ==
    \/ RequestRefresh
    \/ Advance

SpecLimiter == InitLimiter /\ [][NextLimiter]_vars

\* The worked scenario: period 1 s, pump only, max_flooding_time 110 s,
\* flooding_overshoot 5 s; loop() is called once per second, tick n at clock
\* value T0 + n; the flood-level input reads Off on ticks 0 to 99 and On from
\* tick 100, and reads Off again at some tick after the fill has ended; the
\* pump reads back on.
ScenarioConfig ==
    [Option(None, None, None) EXCEPT !.max_flooding_time = 110,
                                     !.flooding_overshoot = 5,
                                     !.max_draining_time = 10,
                                     !.output_max_time = 120]

FirstOnTick == 100
ScenarioTicks == 110

TickNo == now - T0

ScenarioEnvs(st) ==
    { e \in Envs :
        /\ e.basin_sample = "None"
        /\ e.pump_state = IF st = "filling" THEN "on" ELSE "None"
        /\ st \in {"starting", "filling"} =>
              e.flood_sample = IF TickNo < FirstOnTick THEN "0" ELSE "on"
        /\ st = "draining" => e.flood_sample \in {"on", "0"}
        /\ st \notin {"starting", "filling", "draining"} => e.flood_sample = "None" }

InitScenario == InitWith({ScenarioConfig})

\* the tick of this second
ScenarioTick ==
    /\ calls = 0
    /\ \E e \in ScenarioEnvs(self.state) :
          LET c == loop(Ctx(e), now)
          IN Commit(c, "loop") /\ hist' = HistAfter(hist, c, now)
    /\ calls' = 1
    /\ UNCHANGED <<cfg, now>>

\* one second passes
ScenarioSecond ==
    /\ calls = 1
    /\ TickNo < ScenarioTicks
    /\ now' = now + 1
    /\ out' = <<>>
    /\ raised' = FALSE
    /\ last' = "advance"
    /\ calls' = 0
    /\ env' = NoEnv
    /\ UNCHANGED <<cfg, self, host, hist>>

NextScenario ==
    \/ ScenarioTick
    \/ ScenarioSecond

SpecScenario == InitScenario /\ [][NextScenario]_vars

\* activations that find counters persisted by earlier runs
Seeds == { <<0, 0>>, <<2, 3>> }

InitSeeded ==
    /\ \E sd \in Seeds : ConstructedFrom({Option(None, None, None)}, sd[1], sd[2])
    /\ hist = NoHist

SpecSeeded == InitSeeded /\ [][Next]_vars

\* ... and the operator's button
SpecSeededReset == InitSeeded /\ [][NextWithReset]_vars

\* both valves, a cleaning window of 5 seconds, and one loop() call per
\* clock value, so that successive ticks are a period apart
CleaningConfig ==
    [Option(None, 0, 0) EXCEPT !.valve_cleaning_time = 5, !.max_flooding_time = 6]

InitCleaning == InitWith({CleaningConfig})

TickOnce == calls = 0 /\ Tick

NextCleaning ==
    \/ TickOnce
    \/ StopFunction
    \/ DeactivateThread
    \/ Advance

SpecCleaning == InitCleaning /\ [][NextCleaning]_vars

\* Due ticks keep arriving and the clock keeps advancing: one loop() call at
\* every clock value the host gets to, the clock moving on by one second
\* (the period) in between, up to a horizon that lies beyond the longest start,
\* fill and drain the options allow; both steps are scheduled fairly (the
\* host daemon calls loop() in an endless loop).  The activation is followed
\* until it has reached drained, error or shutdown.
Horizon == 12

Terminal == {"drained", "error", "shutdown"}

TimePasses ==
    /\ calls = 1
    /\ now < Horizon
    /\ self.state \notin Terminal
    /\ now' = now + 1
    /\ out' = <<>>
    /\ raised' = FALSE
    /\ last' = "advance"
    /\ calls' = 0
    /\ env' = NoEnv
    /\ UNCHANGED <<cfg, self, host, hist>>

NextRunning ==
    \/ TickOnce
    \/ TimePasses
    \/ StopFunction
    \/ DeactivateThread

SpecRunning ==
    Init /\ [][NextRunning]_vars /\ WF_vars(TickOnce) /\ WF_vars(TimePasses)

\* The PCF8574 input (inputs/pcf8574_8ch.py).  Two InputModule instances run
\* in one process, each on its own chip and each polled by its own thread;
\* get_measurement holds no lock, so the threads interleave between any two
\* accesses of the module-level channels_dict.  In this specification
\*   cfg   is the saved channel option update_mode, the same for both,
\*   host  is the module-level channels_dict,
\*   self  is, per instance, its position in get_measurement, the locals of
\*         the loop body, the pin levels latched by read_state and return_dict,
\*   out   is the value_set call of the most recent step, if any,
\*   env   is the instance that made the step and the pin levels it holds,
\*   hist  is each instance's own previous reading of every channel,
\*   calls is the number of polls begun.
NumChannels == 2
MaxPolls == 4

Channels == 0..(NumChannels - 1)
Instances == {"input_a", "input_b"}
PinLevels == [Channels -> {0, 1}]
NoLevels == [ch \in Channels |-> None]

\* channels_dict[ch] as the module builds it, update_mode as initialize()
\* leaves it
ChannelEntry(mode) ==
    [last_measurement |-> None, update_mode |-> mode, update_count |-> 0]

NoPoll == [instance |-> "none", port |-> NoLevels]

\* lines 143-145: the locals at the head of the loop body for channel ch
LoopBody(s, ch) ==
    [s EXCEPT !.pc = "read_last", !.channel = ch, !.last_measurement = None,
              !.update_mode = "periodic", !.update_count = 0]

\* an instance outside get_measurement
Returned ==
    [pc |-> "idle", channel |-> 0, port |-> NoLevels, return_dict |-> NoLevels,
     last_measurement |-> None, update_mode |-> "periodic", update_count |-> 0]

\* update_mode decides whether the value is set (lines 152-174)
value_is_set(s, port_value) ==
    CASE s.update_mode = "periodic" -> TRUE
      [] s.update_mode = "on_change" -> port_value # s.last_measurement
      [] s.update_mode = "periodic_on_change" ->
             port_value # s.last_measurement \/ s.update_count >= 60
      [] OTHER -> TRUE

value_set(instance, channel, value) ==
    [op |-> "value_set", dev |-> instance, channel |-> channel,
     amount |-> value, ret |-> "-"]

InitExpander ==
    /\ cfg = [update_mode |-> [ch \in Channels |-> "on_change"]]
    /\ host = [ch \in Channels |-> ChannelEntry(cfg.update_mode[ch])]
    /\ self = [i \in Instances |-> Returned]
    /\ out = <<>>
    /\ raised = FALSE
    /\ last = "init"
    /\ env = NoPoll
    /\ hist = [i \in Instances |-> NoLevels]
    /\ now = T0
    /\ calls = 0

\* what every step of get_measurement of instance i leaves behind
Stepped(i) ==
    /\ last' = "get_measurement"
    /\ env' = [instance |-> i, port |-> self'[i].port]
    /\ UNCHANGED <<cfg, raised, now>>

\* lines 138-141: the input controller of an instance calls get_measurement;
\* return_dict is built anew and read_state latches the chip's pin levels
BeginPoll ==
    /\ calls < MaxPolls
    /\ \E i \in Instances, port \in PinLevels :
          /\ self[i].pc = "idle"
          /\ self' = [self EXCEPT ![i] =
                         LoopBody([@ EXCEPT !.port = port, !.return_dict = NoLevels], 0)]
          /\ Stepped(i)
    /\ out' = <<>>
    /\ calls' = calls + 1
    /\ UNCHANGED <<host, hist>>

\* line 147
ReadLastMeasurement ==
    \E i \in Instances :
        /\ self[i].pc = "read_last"
        /\ self' = [self EXCEPT ![i].pc = "read_count",
                                ![i].last_measurement =
                                    host[self[i].channel].last_measurement]
        /\ Stepped(i)
        /\ out' = <<>>
        /\ UNCHANGED <<host, hist, calls>>

\* lines 148-149 (update_mode is not written after initialize)
ReadUpdateCount ==
    \E i \in Instances :
        /\ self[i].pc = "read_count"
        /\ self' = [self EXCEPT ![i].pc = "match",
                                ![i].update_mode = host[self[i].channel].update_mode,
                                ![i].update_count = host[self[i].channel].update_count]
        /\ Stepped(i)
        /\ out' = <<>>
        /\ UNCHANGED <<host, hist, calls>>

\* lines 150-174: the pin level is decoded and, if update_mode asks for it,
\* set in return_dict and written to channels_dict as last_measurement
MatchUpdateMode ==
    \E i \in Instances :
        LET s == self[i]
            ch == s.channel
            port_value == s.port[ch]
            set == value_is_set(s, port_value)
        IN
        /\ s.pc = "match"
        /\ self' = [self EXCEPT ![i].pc = "count",
                                ![i].update_count = IF set THEN 0 ELSE @,
                                ![i].return_dict[ch] = IF set THEN port_value ELSE @]
        /\ host' = IF set THEN [host EXCEPT ![ch].last_measurement = port_value]
                   ELSE host
        /\ out' = IF set THEN <<value_set(i, ch, port_value)>> ELSE <<>>
        /\ hist' = [hist EXCEPT ![i][ch] = port_value]
        /\ Stepped(i)
        /\ UNCHANGED calls

\* lines 175-176, then the next channel or the return of line 178
WriteUpdateCount ==
    \E i \in Instances :
        LET s == self[i]
            ch == s.channel
        IN
        /\ s.pc = "count"
        /\ host' = [host EXCEPT ![ch].update_count = s.update_count + 1]
        /\ self' = [self EXCEPT ![i] =
                         IF ch + 1 \in Channels THEN LoopBody(s, ch + 1)
                         ELSE [Returned EXCEPT !.port = s.port,
                                               !.return_dict = s.return_dict]]
        /\ Stepped(i)
        /\ out' = <<>>
        /\ UNCHANGED <<hist, calls>>

NextExpander ==
    \/ BeginPoll
    \/ ReadLastMeasurement
    \/ ReadUpdateCount
    \/ MatchUpdateMode
    \/ WriteUpdateCount

SpecExpander == InitExpander /\ [][NextExpander]_vars

TypeOK ==
    /\ self.state \in States
    /\ now \in T0..(MaxTime + MaxStep)
    /\ self.starting_tries \in None..4

----------------------------------------------------------------------------
(* Vocabulary of the properties *)

\* the actuators all_outputs_off addresses in this configuration
Configured(a) ==
    \/ a = "pump"
    \/ a = "valve1" /\ cfg.output_valve1_channel # None
    \/ a = "valve2" /\ cfg.output_valve2_channel # None

AllCommandedOff(h) == \A a \in Actuators : Configured(a) => h.cmd[a] = "off"

NoneCommandedOn(h) == \A a \in Actuators : Configured(a) => h.cmd[a] # "on"

\* the call trace o holds a command to an actuator
ActuatorCommand(o) ==
    \E i \in 1..Len(o) : o[i].op \in {"output_on", "output_off"}

\* the call trace o holds the call op to dev
Called(o, op, dev) == \E i \in 1..Len(o) : o[i].op = op /\ o[i].dev = dev

\* the step is a loop() call that got past the timer gate
DueTick == last' = "loop" /\ self.timer_loop <= now

\* the step took the controller through full (on_full ran)
EnteredFull == DueTick /\ self.state = "filling" /\ self'.flooding_count = self.flooding_count + 1

----------------------------------------------------------------------------
(* Properties *)

\* C1: every turn-on command issued to the pump, valve 1 or valve 2 (when
\* filling starts, in the cleaning sub-sequence, when the cleaning window ends)
\* carries the configured output_max_time as its amount.
C1_TurnOnCarriesCeiling ==
    \A i \in 1..Len(out) :
        out[i].op = "output_on" => out[i].amount = cfg.output_max_time

\* a filling tick at the end of the cleaning window re-opened both valves
C1_Witness ==
    /\ last = "loop"
    /\ self.state = "filling"
    /\ self.cleaning_valves = 0
    /\ Called(out, "output_on", "valve1")
    /\ Called(out, "output_on", "valve2")

\* C2 (as claimed): whenever the controller is in the error phase, the pump
\* and every configured valve have been commanded off.
C2_ErrorOutputsOff ==
    self.state = "error" => NoneCommandedOn(host)

\* C3: stop_function, in whatever phase, ends in shutdown with the pump and
\* every configured valve commanded off; afterwards no loop() call changes the
\* phase or issues an actuator command.
C3_StopEndsInShutdown ==
    [][ /\ last' = "stop_function" =>
            self'.state = "shutdown" /\ AllCommandedOff(host')
        /\ (self.state = "shutdown" /\ last' = "loop") =>
            /\ self'.state = "shutdown"
            /\ ~ActuatorCommand(out')
            /\ host'.cmd = host.cmd ]_vars

\* a loop() call ran after the controller was stopped in mid-cycle with both
\* valves configured
C3_Witness ==
    /\ self.state = "shutdown"
    /\ last = "loop"
    /\ self.fill_start_timestamp > 0
    /\ cfg.output_valve2_channel # None
    /\ host.cmd["valve2"] = "off"

\* the fill timeout has not struck at the current clock value
FillNotTimedOut == now - self.fill_start_timestamp <= cfg.max_flooding_time

\* the drain timeout has not struck at the current clock value
DrainNotTimedOut == now - self.draining_start_timestamp <= cfg.max_draining_time

\* the handler with call trace o and returns e read a non-boolean min-level
\* value (read_basin_waterlevel then signals the error itself)
BasinReaderError(o, e) ==
    /\ Called(o, "get_last_measurement", "min_dev")
    /\ e.basin_sample \notin OffRaw \cup OnRaw \cup {"None"}

\* C4 (as claimed): the controller enters full only if no filling tick since
\* the first On reading of the flood sensor read anything other than On.
C4_FullOnlyIfStayedOn ==
    [][ EnteredFull => ~hist'.off_after_on ]_vars

\* C5: the controller enters full no earlier than flooding_overshoot seconds
\* after the first On reading of the flood sensor in this fill, and as long
\* as it is in filling the pump stays commanded on.
C5_OvershootDwell ==
    [][ /\ EnteredFull =>
            /\ hist'.first_on # None
            /\ now - hist'.first_on >= cfg.flooding_overshoot
        /\ self'.state = "filling" => host'.cmd["pump"] = "on" ]_vars

\* the sensor read On on every filling tick and the controller has just gone
\* through full, after a fill that started before the first On reading
C5_Witness ==
    /\ last = "loop"
    /\ self.state = "draining"
    /\ hist.drain_ticks = 0
    /\ hist.only_on
    /\ hist.first_on # None
    /\ hist.first_on > self.fill_start_timestamp
    /\ now - hist.first_on >= cfg.flooding_overshoot

\* C6: on a filling tick with the pump reading On and the flood sensor
\* reading Off (and no non-boolean min-level value), the controller stays in
\* filling with the error count unchanged as long as the elapsed fill time does
\* not exceed max_flooding_time; on the tick where it does, the controller
\* enters error and the error count grows by exactly 1.
C6_FillTimeout ==
    [][ (DueTick /\ self.state = "filling") =>
          /\ ~FillNotTimedOut =>
                /\ self'.state = "error"
                /\ self'.error_count = self.error_count + 1
          /\ ( /\ FillNotTimedOut
               /\ env'.pump_state \in PumpOnValues
               /\ env'.flood_sample \in OffRaw
               /\ ~BasinReaderError(out', env') ) =>
                /\ self'.state = "filling"
                /\ self'.error_count = self.error_count ]_vars

\* the fill timed out with the flood sensor never having read On
C6_Witness ==
    /\ last = "loop"
    /\ self.state = "error"
    /\ self.flooding_time > cfg.max_flooding_time
    /\ hist.first_on = None
    /\ self.error_count = 1
    /\ self.flooding_count = 0

\* C7: every filling tick that has not timed out reads the pump state back;
\* if the result is anything other than On the controller enters error in
\* that tick, counted once, without reading the flood sensor and without
\* going through full.
C7_PumpReadBack ==
    [][ (DueTick /\ self.state = "filling" /\ FillNotTimedOut) =>
          /\ Called(out', "output_state", "pump")
          /\ env'.pump_state \notin PumpOnValues =>
                /\ self'.state = "error"
                /\ self'.error_count = self.error_count + 1
                /\ self'.flooding_count = self.flooding_count
                /\ ~FloodRead(out') ]_vars

\* a filling tick read the pump back as off and ended in error
C7_Witness ==
    /\ last = "loop"
    /\ self.state = "error"
    /\ Called(out, "output_state", "pump")
    /\ env.pump_state = "off"

\* C8: on a filling tick that gets to the flood-level read, no sample within
\* max_age sends the controller to error in that tick; an Off reading (with
\* no non-boolean min-level value) leaves it in filling and leaves the
\* flood-detected timestamp as it was.
C8_FillingFloodRead ==
    [][ ( /\ DueTick
          /\ self.state = "filling"
          /\ FillNotTimedOut
          /\ env'.pump_state \in PumpOnValues ) =>
          /\ env'.flood_sample = "None" =>
                /\ self'.state = "error"
                /\ self'.error_count > self.error_count
          /\ (env'.flood_sample \in OffRaw /\ ~BasinReaderError(out', env')) =>
                /\ self'.state = "filling"
                /\ self'.flooded_high_time = self.flooded_high_time ]_vars

\* a filling tick found no flood-level sample and ended in error
C8_Witness ==
    /\ last = "loop"
    /\ self.state = "error"
    /\ Called(out, "output_state", "pump")
    /\ FloodRead(out)
    /\ env.flood_sample = "None"

\* C9: a draining tick ends in error when the elapsed drain time exceeds
\* max_draining_time; otherwise it ends in error on an unavailable flood
\* level, stays in draining on On and moves to drained on Off.
C9_DrainingOutcomes ==
    [][ (DueTick /\ self.state = "draining") =>
          IF ~DrainNotTimedOut THEN self'.state = "error"
          ELSE /\ env'.flood_sample \notin OffRaw \cup OnRaw => self'.state = "error"
               /\ env'.flood_sample \in OnRaw => self'.state = "draining"
               /\ env'.flood_sample \in OffRaw => self'.state = "drained" ]_vars

\* a draining tick within the drain time found no flood-level sample
C9_Witness ==
    /\ last = "loop"
    /\ self.state = "error"
    /\ hist.drain_ticks >= 1
    /\ self.draining_time <= cfg.max_draining_time
    /\ FloodRead(out)
    /\ env.flood_sample = "None"

\* C10 (as claimed): the first draining tick of a cycle, when the flood sensor
\* reads Off, ends in drained however much time has passed.
C10_FirstCheckOffDrains ==
    [][ ( /\ DueTick
          /\ self.state = "draining"
          /\ hist.drain_ticks = 0
          /\ env'.flood_sample \in OffRaw ) =>
          self'.state = "drained" ]_vars

\* C10 (amended): the first draining tick of a cycle, when the flood sensor
\* reads Off, ends in drained if the elapsed drain time does not exceed
\* max_draining_time, and in error if it does.
C10_FirstCheckOffDrainsInTime ==
    [][ ( /\ DueTick
          /\ self.state = "draining"
          /\ hist.drain_ticks = 0
          /\ env'.flood_sample \in OffRaw ) =>
          IF DrainNotTimedOut THEN self'.state = "drained"
          ELSE self'.state = "error" ]_vars

\* the first draining tick came max_draining_time after the drain began,
\* read Off and ended in drained
C10_Witness ==
    /\ last = "loop"
    /\ self.state = "drained"
    /\ hist.drain_ticks = 1
    /\ self.draining_time = cfg.max_draining_time
    /\ env.flood_sample \in OffRaw

\* number of statistics batches written in the call trace o
StatsWrites(o) == Cardinality({i \in 1..Len(o) : o[i].op = "add_measurements"})

\* number of deactivation requests that started a thread in the call trace o
DeactivateCalls(o) == Cardinality({i \in 1..Len(o) : o[i].op = "controller_deactivate"})

\* C11: with output_waterpump_channel missing, the controller is out of idle
\* and starting before its 4th tick has run, it is never in filling, full,
\* draining or drained, and no actuator is ever commanded on.
C11_NoPumpNeverFills ==
    /\ self.state \in {"idle", "starting"} => hist.start_ticks < 4
    /\ hist.start_ticks <= 4
    /\ self.state \in {"idle", "starting", "error", "shutdown"}
    /\ \A a \in Actuators : host.cmd[a] # "on"
    /\ \A i \in 1..Len(out) : out[i].op # "output_on"

\* the first starting tick of a configuration without pump ended in error
C11_Witness ==
    /\ cfg.output_waterpump_channel = None
    /\ last = "loop"
    /\ self.state = "error"
    /\ hist.start_ticks = 2
    /\ self.error_count = 1

\* C12 (as claimed): starting_tries never exceeds 3.
C12_TriesAtMostThree ==
    self.starting_tries <= 3

\* C12 (amended): starting_tries never exceeds 4, and it exceeds 3 only once
\* the controller has given up (phase error, or shutdown after it).
C12_TriesAtMostFour ==
    /\ self.starting_tries <= 4
    /\ self.starting_tries > 3 => self.state \in {"error", "shutdown"}

\* the starting tick that gave up left the counter at 4
C12_Witness ==
    /\ last = "loop"
    /\ self.state = "error"
    /\ self.starting_tries = 4
    /\ Len(out) > 0

\* C13: a starting tick that reads the flood level as On or finds no sample
\* leaves the controller in starting, without an error and without a command
\* to any actuator, as long as fewer than 4 starting ticks have run before it;
\* the 5th starting tick enters error.
C13_StartingRetries ==
    [][ (DueTick /\ self.state = "starting") =>
          IF hist.start_ticks >= 5 THEN self'.state = "error"
          ELSE env'.flood_sample \in OnRaw \cup {"None"} =>
                 /\ self'.state = "starting"
                 /\ self'.error_count = self.error_count
                 /\ ~ActuatorCommand(out')
                 /\ host'.cmd = host.cmd ]_vars

\* the initial attempt and 3 retries all found the flood level On or
\* unavailable, and the next starting tick gave up
C13_Witness ==
    /\ last = "loop"
    /\ self.state = "error"
    /\ hist.start_ticks = 6
    /\ self.error_count = 1
    /\ \A a \in Actuators : host.cmd[a] = "none"

\* a min-level input is configured
BasinConfigured == cfg.measurement_min_waterlevel_measurement_id # None

\* C14 (as claimed): with a min-level input configured, a starting tick goes
\* on to filling only when the min-level input reads Off; no sample holds the
\* controller in starting and On makes it retry.
C14_StartsOnBasinOff ==
    [][ (DueTick /\ self.state = "starting" /\ BasinConfigured) =>
          /\ self'.state = "filling" => env'.basin_sample \in OffRaw
          /\ ( /\ Called(out', "get_last_measurement", "min_dev")
               /\ env'.basin_sample \in OnRaw \cup {"None"} ) =>
                self'.state = "starting" ]_vars

\* C14 (amended): with a min-level input configured, a starting tick goes on
\* to filling and turns on the pump only when the min-level input reads On;
\* no sample holds the controller in starting and Off makes it retry.
C14_StartsOnBasinOn ==
    [][ (DueTick /\ self.state = "starting" /\ BasinConfigured) =>
          /\ (self'.state = "filling" \/ Called(out', "output_on", "pump")) =>
                /\ Called(out', "get_last_measurement", "min_dev")
                /\ env'.basin_sample \in OnRaw
                /\ self'.state = "filling"
                /\ host'.cmd["pump"] = "on"
          /\ ( /\ Called(out', "get_last_measurement", "min_dev")
               /\ env'.basin_sample \in OffRaw \cup {"None"} ) =>
                /\ self'.state = "starting"
                /\ ~ActuatorCommand(out') ]_vars

\* a starting tick read the min-level input as On and went on to filling
C14_Witness ==
    /\ BasinConfigured
    /\ last = "loop"
    /\ self.state = "filling"
    /\ self.fill_start_timestamp = now
    /\ Called(out, "get_last_measurement", "min_dev")
    /\ env.basin_sample \in OnRaw
    /\ Called(out, "output_on", "pump")

\* C15: the controller is never in full at the end of a step; the filling tick
\* that goes through full ends in draining with the flood count one higher,
\* the pump and every configured valve commanded off and the drain-start
\* timestamp set to the tick's clock value, and no other filling tick changes
\* the flood count.
C15_FullIsTransient ==
    [][ /\ self'.state # "full"
        /\ (DueTick /\ self.state = "filling") =>
              IF self'.state \in {"filling", "error"}
              THEN self'.flooding_count = self.flooding_count
              ELSE /\ self'.state = "draining"
                   /\ self'.flooding_count = self.flooding_count + 1
                   /\ AllCommandedOff(host')
                   /\ self'.draining_start_timestamp = now ]_vars

\* a filling tick with both valves configured has just gone through full
C15_Witness ==
    /\ last = "loop"
    /\ self.state = "draining"
    /\ hist.drain_ticks = 0
    /\ self.flooding_count = 1
    /\ self.draining_start_timestamp = now
    /\ cfg.output_valve1_channel # None
    /\ cfg.output_valve2_channel # None
    /\ Called(out, "output_off", "valve2")

\* the step brought the controller into drained or error from another phase
EnteredTerminal ==
    /\ self.state \notin {"drained", "error"}
    /\ self'.state \in {"drained", "error"}

\* the flood-level sample is neither absent nor a boolean value
FloodInvalid(e) == e.flood_sample \notin OffRaw \cup OnRaw \cup {"None"}

\* C16 (as claimed): a step writes the statistics exactly once if it brings
\* the controller into drained or error, and not at all otherwise.
C16_StatsOncePerTerminal ==
    [][ StatsWrites(out') = IF EnteredTerminal THEN 1 ELSE 0 ]_vars

\* C17 (as claimed): a tick in starting, filling or draining that reads a
\* non-boolean flood level ends in error with the error count one higher and
\* with one statistics write.
C17_InvalidValueCountedOnce ==
    [][ ( /\ DueTick
          /\ self.state \in {"starting", "filling", "draining"}
          /\ FloodRead(out')
          /\ FloodInvalid(env') ) =>
          /\ self'.state = "error"
          /\ self'.error_count = self.error_count + 1
          /\ StatsWrites(out') = 1 ]_vars

\* C18 (as claimed): a tick that finds the controller in idle, starting,
\* filling or draining does not raise to the host.
C18_OnlyErrorTickRaises ==
    [][ (DueTick /\ self.state \in {"idle", "starting", "filling", "draining"}) =>
          ~raised' ]_vars

\* C19: in the call trace of every handler, each deactivation request comes
\* after a statistics write of the same handler.
C19_StatsBeforeDeactivate ==
    \A i \in 1..Len(out) :
        out[i].op = "controller_deactivate" =>
            \E j \in 1..(i - 1) : out[j].op = "add_measurements"

\* a draining tick ended in drained, wrote the statistics and then requested
\* the deactivation
C19_Witness ==
    /\ last = "loop"
    /\ self.state = "drained"
    /\ Len(out) >= 2
    /\ out[Len(out)].op = "controller_deactivate"
    /\ out[Len(out) - 1].op = "add_measurements"
    /\ ~host.is_activated

\* what one step does to the activation flag and the deactivation threads
DeactivateStep ==
    /\ DeactivateCalls(out') <= 1
    /\ host'.deactivate_threads <= 1
    /\ DeactivateCalls(out') = 1 =>
          /\ host.is_activated
          /\ ~host'.is_activated
          /\ host'.deactivate_threads = host.deactivate_threads + 1
    /\ (DeactivateCalls(out') = 0 /\ last' # "thread") =>
          /\ host'.is_activated = host.is_activated
          /\ host'.deactivate_threads = host.deactivate_threads
    /\ (EnteredTerminal /\ host.is_activated) => DeactivateCalls(out') = 1
    /\ (DueTick /\ self.state = "error" /\ ~host.is_activated) => host' = host
    /\ last' = "thread" =>
          /\ host'.deactivate_threads = host.deactivate_threads - 1
          /\ self' = self

\* C20: a deactivation request made with the activation flag set clears the
\* flag and starts exactly one thread; a request made with the flag cleared
\* starts none and changes nothing; a started thread eventually runs.
C20_DeactivateOnce ==
    /\ [][DeactivateStep]_vars
    /\ (host.deactivate_threads > 0) ~> (host.deactivate_threads = 0)

\* loop() was called again in error and returned (by raising) while the
\* deactivation thread had not run yet
C20_Witness ==
    /\ last = "loop"
    /\ self.state = "error"
    /\ raised
    /\ ~host.is_activated
    /\ host.deactivate_threads = 1

\* the persisted statistics other than the error count
OtherStatistics(st) ==
    <<st.flooding_count, st.flooding_time, st.flooding_volume, st.draining_time,
      st.low_water_time>>

\* C21 (as claimed): after the reset-error-counter command the persisted error
\* count is 0 and the persisted flood count and every other persisted
\* statistic are what they were before the command.
C21_ResetKeepsOthers ==
    [][ last' = "button_reset_errors" =>
          /\ host'.store.error_count = 0
          /\ OtherStatistics(host'.store) = OtherStatistics(host.store) ]_vars

\* C22 (as claimed): a tick that is dispatched advances the next-tick
\* timestamp by a whole multiple of period to a value strictly greater than
\* the clock, and a second loop() call at the same clock value changes nothing
\* and calls no collaborator.
C22_TimerPassesClock ==
    [][ /\ DueTick =>
            /\ self'.timer_loop > now
            /\ (self'.timer_loop - self.timer_loop) % cfg.period = 0
        /\ (last' = "loop" /\ calls >= 1) =>
            /\ self' = self
            /\ host' = host
            /\ out' = <<>> ]_vars

\* C23: a loop() call made while the clock is before the next scheduled tick
\* leaves every attribute of the controller (phase, run-state fields, next-tick
\* timestamp, counters) and the collaborators as they were, calls no
\* collaborator and does not raise.
C23_EarlyCallIsNoOp ==
    [][ (last' = "loop" /\ self.timer_loop > now) =>
          /\ self' = self
          /\ host' = host
          /\ out' = <<>>
          /\ ~raised' ]_vars

\* the second loop() call at one clock value came before the next scheduled
\* tick, in the middle of a fill
C23_Witness ==
    /\ last = "loop"
    /\ calls = 2
    /\ self.timer_loop > now
    /\ self.state = "filling"
    /\ host.cmd["pump"] = "on"
    /\ out = <<>>

\* C24 (as claimed): a due tick that finds the controller in error leaves the
\* pump and every configured valve commanded off and raises to the host.
C24_ErrorTickForcesOff ==
    [][ (DueTick /\ self.state = "error") =>
          /\ AllCommandedOff(host')
          /\ raised' ]_vars

\* C25: a loop() call that finds the controller in drained or error leaves
\* it in that phase and issues no turn-on command; the actuator commands stay
\* as they were.
C25_NoRearm ==
    [][ (last' = "loop" /\ self.state \in {"drained", "error"}) =>
          /\ self'.state = self.state
          /\ \A i \in 1..Len(out') : out'[i].op # "output_on"
          /\ host'.cmd = host.cmd ]_vars

\* a due tick ran at a clock value later than the one at which the controller
\* entered drained, and the controller is still in drained
C25_Witness ==
    /\ last = "loop"
    /\ self.state = "drained"
    /\ self.timer_loop = now
    /\ now > self.draining_start_timestamp + self.draining_time
    /\ out = <<>>

\* C26 (as claimed): with flooding_overshoot not less than max_flooding_time
\* the first starting tick ends in error, so the controller is in starting
\* only before a starting tick has run, it is never in filling, full, draining
\* or drained, and the pump is never commanded on.
C26_BadOrderNeverFills ==
    cfg.flooding_overshoot >= cfg.max_flooding_time =>
        /\ self.state = "starting" => hist.start_ticks <= 1
        /\ self.state \in {"idle", "starting", "error", "shutdown"}
        /\ host.cmd["pump"] # "on"

\* the turn-off commands to the pump, valve 1 and valve 2, in that order,
\* leaving out the valves that are not configured
OffCommands ==
    <<Ev("output_off", "pump", 0)>>
    \o (IF cfg.output_valve1_channel # None THEN <<Ev("output_off", "valve1", 0)>> ELSE <<>>)
    \o (IF cfg.output_valve2_channel # None THEN <<Ev("output_off", "valve2", 0)>> ELSE <<>>)

\* C27: called in any reachable state, all_outputs_off issues exactly the
\* turn-off commands to the pump, valve 1, valve 2 in that order, none to a
\* valve that is not configured, does not raise, leaves every configured
\* actuator commanded off and the others untouched; a second call right after
\* issues the same commands and leaves the same state; stop_function, which
\* calls it twice in a row, shows exactly that call trace.
C27_AllOutputsOff ==
    LET c1 == all_outputs_off(Ctx(NoEnv))
        c2 == all_outputs_off(c1)
    IN /\ c1.out = OffCommands
       /\ ~c1.raised
       /\ AllCommandedOff(c1.host)
       /\ \A a \in Actuators : ~Configured(a) => c1.host.cmd[a] = host.cmd[a]
       /\ c1.self = self
       /\ c2.out = OffCommands \o OffCommands
       /\ ~c2.raised
       /\ c2.host = c1.host
       /\ c2.self = c1.self
       /\ last = "stop_function" =>
             /\ out = OffCommands \o OffCommands
             /\ AllCommandedOff(host)
             /\ ~raised

\* stop_function ran in mid-fill in the configuration with valve 2 but
\* without valve 1
C27_Witness ==
    /\ last = "stop_function"
    /\ cfg.output_valve1_channel = None
    /\ cfg.output_valve2_channel # None
    /\ self.fill_start_timestamp > 0
    /\ self.flooding_count = 0
    /\ Len(out) = 4
    /\ host.cmd["valve1"] = "none"
    /\ host.cmd["valve2"] = "off"

\* the reader's result r left the controller's phase and error count alone
\* and wrote no statistics
NoErrorSignalled(r) ==
    /\ r.c.self.state = self.state
    /\ r.c.self.error_count = self.error_count
    /\ StatsWrites(r.c.out) = 0
    /\ ~r.c.raised

\* what the claim says a reader does with the raw value v, given the result
\* r of the reader called in the current state
ReaderMaps(r, v) ==
    /\ v \in OffRaw => r.v = 0 /\ NoErrorSignalled(r)
    /\ v \in OnRaw => r.v = 1 /\ NoErrorSignalled(r)
    /\ v = "None" => r.v = None /\ NoErrorSignalled(r)
    /\ v \notin OffRaw \cup OnRaw \cup {"None"} =>
          /\ r.v = None
          /\ r.c.self.state = "error"
          /\ r.c.self.error_count = self.error_count + 1

\* C28: called in any reachable state, each of the two readers returns Off for
\* a sample 0, 0.0, False or 'off' and On for 1, 1.0, True or 'on', returns
\* Unavailable and leaves the controller alone when the store has no sample
\* within max_age, and for any other value returns Unavailable with the
\* controller in error; a tick that read such a value ends in error.
C28_ReaderMapping ==
    /\ \A v \in RawValues :
          /\ ReaderMaps(read_flood_waterlevel(
                    Ctx([NoEnv EXCEPT !.flood_sample = v]), now), v)
          /\ ReaderMaps(read_basin_waterlevel(
                    Ctx([NoEnv EXCEPT !.basin_sample = v]), now), v)
    /\ \A d \in Devices :
          ( /\ last = "loop"
            /\ Called(out, "get_last_measurement", d)
            /\ (IF d = "flood_dev" THEN env.flood_sample ELSE env.basin_sample)
                   \notin OffRaw \cup OnRaw \cup {"None"} )
          => self.state = "error" /\ self.error_count >= 1

\* a filling tick read the float 1.0 from the flood-level input for the
\* second time and went through full
C28_Witness ==
    /\ last = "loop"
    /\ self.state = "draining"
    /\ self.draining_start_timestamp = now
    /\ env.flood_sample = "1.0"
    /\ FloodRead(out)
    /\ self.overshoot_time >= cfg.flooding_overshoot

\* C29: a forced-refresh request for a source is suppressed (nothing is
\* forwarded, the controller is left as it was) exactly when the last request
\* forwarded for that source is less than 1 second old, whatever was requested
\* or suppressed since and whatever was forwarded for the other source;
\* otherwise it is forwarded once and only that source's window restarts.
C29_ForceRateLimit ==
    [][ last' = "check_force_measurement" =>
          LET d == hist'.requested IN
          /\ \A d2 \in Devices \ {d} :
                /\ ~Called(out', "input_force_measurements", d2)
                /\ self'.last_force_measurement_time[d2] = self.last_force_measurement_time[d2]
          /\ IF /\ hist.forwarded_at[d] # None
                /\ now - hist.forwarded_at[d] < HalfSeconds
             THEN /\ out' = <<>>
                  /\ self' = self
             ELSE /\ out' = <<Ev("input_force_measurements", d, 0)>>
                  /\ self'.last_force_measurement_time[d] = now ]_vars

\* a request for the flood-level source was suppressed half a second after
\* the forwarded one, right after a request for the other source was
\* forwarded
C29_Witness ==
    /\ last = "check_force_measurement"
    /\ hist.requested = "flood_dev"
    /\ out = <<>>
    /\ hist.forwarded_at["flood_dev"] = now - 1
    /\ hist.forwarded_at["min_dev"] = now

\* C30: in the scenario the controller is in filling with the pump commanded
\* on after each of the ticks 1 to 104; tick 105 takes it through full into
\* draining with the flood count at 1 and the pump commanded off; it is never
\* in error; the draining tick that reads Off ends in drained and writes the
\* statistics once, with the flood count 1 (it was 0) and a flooding time of
\* 104 s (from the start of filling at tick 1 to tick 105), which is within
\* flooding_overshoot of 100 s.
C30_Scenario ==
    /\ self.state \notin {"full", "error"}
    /\ (last = "loop" /\ TickNo = 0) => self.state = "starting"
    /\ (last = "loop" /\ TickNo \in 1..(FirstOnTick + 4)) =>
          /\ self.state = "filling"
          /\ host.cmd["pump"] = "on"
          /\ self.flooding_count = 0
    /\ (last = "loop" /\ TickNo = FirstOnTick + 5) =>
          /\ self.state = "draining"
          /\ self.draining_start_timestamp = now
          /\ self.flooding_count = 1
          /\ AllCommandedOff(host)
          /\ host.store.flooding_count = 0
    /\ (last = "loop" /\ TickNo > FirstOnTick + 5 /\ env.flood_sample \in OffRaw) =>
          /\ self.state = "drained"
          /\ StatsWrites(out) = 1
    /\ (last = "loop" /\ TickNo > FirstOnTick + 5 /\ env.flood_sample \in OnRaw) =>
          /\ self.state = "draining"
          /\ StatsWrites(out) = 0
    /\ self.state = "drained" =>
          /\ host.store.flooding_count = 1
          /\ host.store.flooding_time = FirstOnTick + 4
          /\ host.store.flooding_time - FirstOnTick <= cfg.flooding_overshoot
          /\ host.store.error_count = 0
          /\ AllCommandedOff(host)

\* the sensor read Off again three ticks after the fill ended and the
\* controller wrote the statistics on entering drained
C30_Witness ==
    /\ last = "loop"
    /\ TickNo = FirstOnTick + 8
    /\ self.state = "drained"
    /\ env.flood_sample = "0"
    /\ StatsWrites(out) = 1
    /\ host.store.flooding_count = 1

\* the step took the controller from filling through full into draining
ReachedFull == self.state = "filling" /\ self'.state = "draining"

\* the step took the controller into error from another phase
EnteredError == self.state # "error" /\ self'.state = "error"

\* C31 (as claimed): the controller's flood count and error count start from
\* the persisted values; in every step the flood count grows by 1 if the step
\* reaches full and by 0 otherwise, the error count grows by 1 if the step
\* enters error and by 0 otherwise, and a statistics write persists the two
\* counts as they then are.
C31_Counters ==
    /\ last = "init" =>
          /\ self.flooding_count = host.store.flooding_count
          /\ self.error_count = host.store.error_count
    /\ [][ /\ self'.flooding_count = self.flooding_count + (IF ReachedFull THEN 1 ELSE 0)
           /\ self'.error_count = self.error_count + (IF EnteredError THEN 1 ELSE 0)
           /\ StatsWrites(out') >= 1 =>
                 /\ host'.store.flooding_count = self'.flooding_count
                 /\ host'.store.error_count = self'.error_count ]_vars

\* the commands to the two valves in the call trace o, in order
ValveCommands(o) ==
    SelectSeq(o, LAMBDA e : e.op \in {"output_on", "output_off"}
                            /\ e.dev \in {"valve1", "valve2"})

BothValves == cfg.output_valve1_channel # None /\ cfg.output_valve2_channel # None

\* the step is a filling tick that gets past the timeout check and the pump
\* read-back at a clock value inside the cleaning window
CleaningTick ==
    /\ DueTick
    /\ self.state = "filling"
    /\ FillNotTimedOut
    /\ env'.pump_state \in PumpOnValues
    /\ self.cleaning_valves >= 1
    /\ now - self.fill_start_timestamp < cfg.valve_cleaning_time

\* C32 (as claimed): with both valves configured, the k-th filling tick of
\* the cleaning window (cleaning_valves is k before it) issues exactly one
\* valve command: valve-1-on for k = 1, 5, ..., valve-1-off for k = 2, 6, ...,
\* valve-2-on for k = 3, 7, ..., valve-2-off for k = 4, 8, ...
C32_CleaningOrder ==
    [][ (CleaningTick /\ BothValves) =>
          ValveCommands(out') =
            << CASE self.cleaning_valves % 4 = 1 ->
                      Ev("output_on", "valve1", cfg.output_max_time)
                 [] self.cleaning_valves % 4 = 2 -> Ev("output_off", "valve1", 0)
                 [] self.cleaning_valves % 4 = 3 ->
                      Ev("output_on", "valve2", cfg.output_max_time)
                 [] OTHER -> Ev("output_off", "valve2", 0) >> ]_vars

\* C38 (as claimed): at the end of a tick that leaves the controller in
\* filling inside the cleaning window, with both valves configured and the
\* pump commanded on, at least one valve is commanded on.
C38_OneValveOpen ==
    ( /\ last = "loop"
      /\ self.state = "filling"
      /\ BothValves
      /\ host.cmd["pump"] = "on"
      /\ self.cleaning_valves >= 1 )
    => (host.cmd["valve1"] = "on" \/ host.cmd["valve2"] = "on")

\* the turn-on commands to the configured valves, valve 1 first, each with
\* the ceiling
ReopenCommands ==
    (IF cfg.output_valve1_channel # None
     THEN <<Ev("output_on", "valve1", cfg.output_max_time)>> ELSE <<>>)
    \o (IF cfg.output_valve2_channel # None
        THEN <<Ev("output_on", "valve2", cfg.output_max_time)>> ELSE <<>>)

\* the valves that are configured are commanded on
ValvesCommandedOn(h) ==
    \A a \in {"valve1", "valve2"} : Configured(a) => h.cmd[a] = "on"

\* C33: the first filling tick that gets past the timeout check and the pump
\* read-back at or after the end of the cleaning window commands every
\* configured valve on with the ceiling and sets the cleaning counter to 0;
\* every later tick that leaves the controller in filling issues no valve
\* command and leaves the valves commanded on and the counter at 0.
C33_ValvesStayOpen ==
    [][ /\ ( /\ DueTick
             /\ self.state = "filling"
             /\ FillNotTimedOut
             /\ env'.pump_state \in PumpOnValues
             /\ self.cleaning_valves >= 1
             /\ now - self.fill_start_timestamp >= cfg.valve_cleaning_time ) =>
             /\ Len(ValveCommands(out')) >= Len(ReopenCommands)
             /\ SubSeq(ValveCommands(out'), 1, Len(ReopenCommands)) = ReopenCommands
             /\ self'.cleaning_valves = 0
             /\ self'.state = "filling" =>
                   /\ ValveCommands(out') = ReopenCommands
                   /\ ValvesCommandedOn(host')
        /\ ( /\ DueTick
             /\ self.state = "filling"
             /\ self.cleaning_valves = 0 ) =>
             /\ self'.cleaning_valves = 0
             /\ self'.state = "filling" =>
                   /\ ValveCommands(out') = <<>>
                   /\ ValvesCommandedOn(host') ]_vars

\* a filling tick after the one that ended the cleaning window, with both
\* valves configured, left the valves as they were
C33_Witness ==
    /\ last = "loop"
    /\ self.state = "filling"
    /\ BothValves
    /\ self.cleaning_valves = 0
    /\ Called(out, "output_state", "pump")
    /\ ValveCommands(out) = <<>>
    /\ host.cmd["valve1"] = "on"
    /\ host.cmd["valve2"] = "on"

\* the step's handler read the min-level input as Off
BasinReadOff ==
    /\ Called(out', "get_last_measurement", "min_dev")
    /\ env'.basin_sample \in OffRaw

\* C34: the low-water time changes only on a filling tick that finds it 0,
\* and then to the time elapsed since the start of filling, on a tick that
\* reads the min-level input as Off or that goes through full; a filling tick
\* that finds it 0 and reads Off sets it, and so does the tick that goes
\* through full; it is 0 as long as the controller is in idle or starting.
C34_LowWaterLatch ==
    /\ [](self.state \in {"idle", "starting"} => self.low_water_time = 0)
    /\ [][ /\ self'.low_water_time # self.low_water_time =>
                 /\ DueTick
                 /\ self.state = "filling"
                 /\ self.low_water_time = 0
                 /\ BasinReadOff \/ ReachedFull
           /\ ( /\ DueTick
                /\ self.state = "filling"
                /\ self.low_water_time = 0
                /\ BasinReadOff \/ ReachedFull ) =>
                 self'.low_water_time = now - self.fill_start_timestamp ]_vars

\* the low-water time was latched on a filling tick that read Off, and the
\* later tick that went through full left it as it was
C34_Witness ==
    /\ BasinConfigured
    /\ last = "loop"
    /\ self.state = "draining"
    /\ hist.drain_ticks = 0
    /\ self.low_water_time > 0
    /\ self.low_water_time < self.draining_start_timestamp - self.fill_start_timestamp

\* C35: with ticks arriving and the clock advancing, the controller
\* eventually is in drained, error or shutdown, whatever the inputs and the
\* pump read-back return.
C35_Terminates ==
    <>(self.state \in Terminal)

\* the start was retried to the last, the fill then ran up to its time limit
\* and the drain timed out
C35_Witness ==
    /\ self.state = "error"
    /\ last = "loop"
    /\ self.starting_tries = 3
    /\ self.flooding_time = cfg.max_flooding_time
    /\ self.draining_time > cfg.max_draining_time

\* C36: whenever the controller is in idle, starting, draining, drained or
\* shutdown (at the end of a tick as well as between ticks), the last command
\* issued to the pump and to each configured valve is not a turn-on; turn-ons
\* are issued only by the tick that enters filling (on_starting) and by ticks
\* that begin in filling.
QuietPhases == {"idle", "starting", "draining", "drained", "shutdown"}

TurnsOn(o) == \E i \in 1..Len(o) : o[i].op = "output_on"

C36_OnOnlyInFilling ==
    /\ [](self.state \in QuietPhases => NoneCommandedOn(host))
    /\ [][ TurnsOn(out') => self.state \in {"starting", "filling"} ]_vars

\* a tick has ended in draining after the outputs had been turned on
C36_Witness ==
    /\ self.state = "draining"
    /\ last = "loop"
    /\ TurnsOn(out)
    /\ AllCommandedOff(host)

\* C37: a due filling tick on which the elapsed fill time exceeds
\* max_flooding_time ends in error whatever the inputs return, and issues no
\* pump read-back, no sensor refresh or read and no valve command.
TimeoutBypassed(o) ==
    \E i \in 1..Len(o) :
        \/ o[i].op \in {"output_state", "input_force_measurements", "get_last_measurement"}
        \/ o[i].op \in {"output_on", "output_off"} /\ o[i].dev \in {"valve1", "valve2"}

C37_TimeoutFirst ==
    [][ (DueTick /\ self.state = "filling" /\ ~FillNotTimedOut) =>
          /\ self'.state = "error"
          /\ ~TimeoutBypassed(out') ]_vars

\* the fill timed out on a tick where the flood sensor would have read On and
\* the overshoot dwell, begun on an earlier tick, would have been complete
C37_Witness ==
    /\ last = "loop"
    /\ self.state = "error"
    /\ self.flooding_time > cfg.max_flooding_time
    /\ env.flood_sample \in OnRaw
    /\ env.pump_state \in PumpOnValues
    /\ self.flooded_high_time # 0
    /\ now - self.flooded_high_time >= cfg.flooding_overshoot
    /\ ~TimeoutBypassed(out)

\* C39 (as claimed): when the tick that follows the reset-error-counter
\* command writes the statistics, the persisted error count is the number of
\* errors counted in that tick, i.e. of the errors since the reset.
C39_ResetCountsAnew ==
    [][ (last = "button_reset_errors" /\ last' = "loop" /\ StatsWrites(out') > 0) =>
          host'.store.error_count = self'.error_count - self.error_count ]_vars

\* C40 (as claimed): in on_change mode an instance sets the value of a channel
\* on a poll exactly when that value differs from the instance's own previous
\* reading of the channel (always on its first poll), whatever the other
\* instance has read in between.
Recorded(o, channel) == \E k \in 1..Len(o) : o[k].channel = channel

C40_PerInstanceOnChange ==
    [][ \A i \in Instances :
          (self[i].pc = "match" /\ self'[i].pc = "count") =>
              LET ch == self[i].channel IN
              Recorded(out', ch) <=> self[i].port[ch] # hist[i][ch] ]_vars

====
